---- MODULE Spec2Model ----
(***************************************************************************)
(* Command approval and execution in agent.nvim.                           *)
(*                                                                         *)
(* Two processes are modelled.  The container process owns a              *)
(* CommandExecutor registry (container/src/command/executor.rs) driven by  *)
(* a RequestHandler (container/src/communication/handler.rs).  The plugin  *)
(* process owns a stateless CommandExecutor                                *)
(* (src/agent/command_executor.rs) that runs caller-owned command blocks   *)
(* under a tokio timeout.  The container executor also has a               *)
(* command_timeout field, but nothing except its getter reads it           *)
(* (execute_command waits for sh without any limit), so only the plugin's  *)
(* timeout is state of the model.                                          *)
(*                                                                         *)
(* On top of the plugin executor sit CommandIntegration                     *)
(* (agent/command_integration.rs), which keeps proposals in a map while    *)
(* request_command_approval waits for a decision on a channel, and         *)
(* CommandApprovalUI (ui/command_approval_ui.rs), which keeps the          *)
(* approvals on display.  Each has a specification of its own; all         *)
(* specifications share the variables and leave the others' unchanged.     *)
(*                                                                         *)
(* The controller also holds a SpecWorkflow (spec/workflow.rs), the phase  *)
(* of the spec that is open, and a HealthMonitor (container/health.rs),    *)
(* the record of the container's health checks.  Neither touches a command *)
(* and no command operation touches them.                                  *)
(*                                                                         *)
(* Command texts are sequences of one-character strings so that trimming   *)
(* and substring containment are computed, not assumed.                    *)
(***************************************************************************)
EXTENDS Integers, Sequences, FiniteSets, TLC

(***************************************************************************)
(* Bounds of the model.                                                    *)
(***************************************************************************)
MaxBlocks == 1
MaxSpawns == 2
MaxDuration == 2
MaxTimeout == 1
MaxPieces == 2
MaxProposals == 2
MaxEvents == 2
MaxEntries == 3
MaxApprovals == 2
MaxAge == 2
MaxRatings == 2
MaxFailureCount == 4
MaxThreshold == 3

(***************************************************************************)
(* Program constants.                                                      *)
(***************************************************************************)
DefaultTimeoutSecs == 300
DefaultMaxFailures == 3

(***************************************************************************)
(* Command texts.                                                          *)
(***************************************************************************)
cmd_ls == <<"l", "s", " ", "-", "l", "a">>
cmd_blank == <<" ", " ", " ">>
cmd_rm_root == <<"r", "m", " ", "-", "r", "f", " ", "/">>
cmd_sudo_rm == <<"s", "u", "d", "o", " ", "r", "m", " ", "f", "i", "l", "e">>

\* the command texts that requests carry
Commands == {cmd_ls, cmd_blank, cmd_rm_root, cmd_sudo_rm}

Dirs == {"/tmp", "/nonexistent"}

Descriptions == {"x"}

BlockIds == 1..MaxBlocks

(***************************************************************************)
(* str::trim and str::contains.                                            *)
(***************************************************************************)
Whitespace == {" ", "\t", "\n"}

SetMin(S) == CHOOSE m \in S : \A n \in S : m <= n

SetMax(S) == CHOOSE m \in S : \A n \in S : n <= m

Trim(s) ==
    LET keep == {i \in 1..Len(s) : s[i] \notin Whitespace}
    IN  IF keep = {} THEN <<>> ELSE SubSeq(s, SetMin(keep), SetMax(keep))

Contains(s, p) ==
    \E i \in 1..(Len(s) - Len(p) + 1) : SubSeq(s, i, i + Len(p) - 1) = p

(***************************************************************************)
(* Result<(), Error>: the error is kept as its message.                    *)
(***************************************************************************)
Ok == [ok |-> TRUE, err |-> "", pattern |-> <<>>]

Err(msg) == [ok |-> FALSE, err |-> msg, pattern |-> <<>>]

\* the call has not returned yet: its thread is blocked waiting for sh
Waiting == [ok |-> FALSE, err |-> "", pattern |-> <<>>]

(***************************************************************************)
(* CommandExecutor::validate_command                                       *)
(***************************************************************************)
forbidden_patterns ==
    << <<":", "(", ")", "{", " ", ":", "|", ":", "&", " ", "}", ";", ":">>,
       <<"r", "m", " ", "-", "r", "f", " ", "/">>,
       <<"m", "k", "f", "s">> >>

\* a validation that tests the text for emptiness without trimming it
validate_command_untrimmed(command) ==
    IF command = <<>>
    THEN Err("Command cannot be empty")
    ELSE LET hits == {i \in 1..Len(forbidden_patterns) :
                        Contains(command, forbidden_patterns[i])}
         IN  IF hits # {}
             THEN [ok |-> FALSE, err |-> "Command contains forbidden pattern",
                   pattern |-> forbidden_patterns[SetMin(hits)]]
             ELSE Ok

validate_command(command) ==
    IF Trim(command) = <<>>
    THEN Err("Command cannot be empty")
    ELSE LET hits == {i \in 1..Len(forbidden_patterns) :
                        Contains(command, forbidden_patterns[i])}
         IN  IF hits # {}
             THEN [ok |-> FALSE, err |-> "Command contains forbidden pattern",
                   pattern |-> forbidden_patterns[SetMin(hits)]]
             ELSE Ok

(***************************************************************************)
(* CommandExecutor::assess_risk_level                                      *)
(***************************************************************************)
high_risk_patterns ==
    { <<"r", "m", " ", "-", "r", "f">>,
      <<"s", "u", "d", "o">>,
      <<"c", "h", "m", "o", "d", " ", "7", "7", "7">>,
      <<"d", "d", " ", "i", "f", "=">>,
      <<"m", "k", "f", "s">>,
      <<">", " ", "/", "d", "e", "v", "/">> }

medium_risk_patterns ==
    { <<"r", "m", " ">>,
      <<"m", "v", " ">>,
      <<"c", "p", " ">>,
      <<"c", "h", "m", "o", "d">>,
      <<"c", "h", "o", "w", "n">>,
      <<"k", "i", "l", "l">>,
      <<"p", "k", "i", "l", "l">> }

\* an assessment that looks at the medium-risk patterns first
assess_risk_level_medium_first(command) ==
    IF \E pattern \in medium_risk_patterns : Contains(command, pattern)
    THEN "Medium"
    ELSE IF \E pattern \in high_risk_patterns : Contains(command, pattern)
         THEN "High"
         ELSE "Low"

assess_risk_level(command) ==
    IF \E pattern \in high_risk_patterns : Contains(command, pattern)
    THEN "High"
    ELSE IF \E pattern \in medium_risk_patterns : Contains(command, pattern)
         THEN "Medium"
         ELSE "Low"

(***************************************************************************)
(* The host: which directories exist, how a process ends, what it prints.  *)
(***************************************************************************)
HostDirs == {"/tmp", "/home"}

HostFiles == {"/etc/hosts"}

\* Path::exists
PathExists(path) == path \in HostDirs \cup HostFiles

\* Path::is_dir
DirExists(dir) == dir \in HostDirs

\* ExitStatus::code(): <<n>> is Some(n), <<>> is None (killed by a signal)
OsStatuses == {<<0>>, <<1>>, <<>>}

ShellStdout(command) == <<"$">> \o command

\* a CommandOutput that reports 0 when the host gives no exit code
CaptureOutputZeroForNone(command, status) ==
    [stdout |-> ShellStdout(command),
     stderr |-> "",
     exit_code |-> IF status = <<>> THEN 0 ELSE status[1],
     success |-> status = <<0>>]

\* the CommandOutput built from std::process::Output
CaptureOutput(command, status) ==
    [stdout |-> ShellStdout(command),
     stderr |-> "",
     exit_code |-> IF status = <<>> THEN -1 ELSE status[1],
     success |-> status = <<0>>]

(***************************************************************************)
(* Container registry: CommandBlock records keyed by block id.             *)
(***************************************************************************)
Pending == [tag |-> "Pending"]

Approved == [tag |-> "Approved"]

Rejected == [tag |-> "Rejected"]

Executed(output) == [tag |-> "Executed", output |-> output]

Insert(map, key, value) ==
    [k \in DOMAIN map \cup {key} |-> IF k = key THEN value ELSE map[k]]

NotFound == Err("Command block not found")

create_command_block(pc, block_id, command, working_directory, description) ==
    Insert(pc, block_id,
           [id |-> block_id,
            command |-> command,
            working_directory |-> working_directory,
            description |-> description,
            risk_level |-> assess_risk_level(command),
            approval_status |-> Pending])

\* an approval that answers Ok and leaves the block as it was
approve_command_unrecorded(pc, block_id) ==
    [pending |-> pc, result |-> IF block_id \notin DOMAIN pc THEN NotFound ELSE Ok]

approve_command(pc, block_id) ==
    IF block_id \notin DOMAIN pc
    THEN [pending |-> pc, result |-> NotFound]
    ELSE [pending |-> [pc EXCEPT ![block_id].approval_status = Approved],
          result |-> Ok]

\* CommandExecutor::get_command_block: a clone of the stored block
get_command_block(pc, block_id) ==
    IF block_id \notin DOMAIN pc
    THEN [result |-> NotFound, command_block |-> <<>>]
    ELSE [result |-> Ok, command_block |-> <<pc[block_id]>>]

\* a rejection that files a Rejected block under an id it does not know
reject_command_upsert(pc, block_id) ==
    IF block_id \notin DOMAIN pc
    THEN [pending |-> Insert(pc, block_id,
                             [id |-> block_id,
                              command |-> <<>>,
                              working_directory |-> "",
                              description |-> "",
                              risk_level |-> "Low",
                              approval_status |-> Rejected]),
          result |-> NotFound]
    ELSE [pending |-> [pc EXCEPT ![block_id].approval_status = Rejected],
          result |-> Ok]

reject_command(pc, block_id) ==
    IF block_id \notin DOMAIN pc
    THEN [pending |-> pc, result |-> NotFound]
    ELSE [pending |-> [pc EXCEPT ![block_id].approval_status = Rejected],
          result |-> Ok]

\* a guard that also lets a block through that nobody decided on yet
IsApprovedOrPending(command_block) ==
    command_block.approval_status.tag \in {"Approved", "Pending"}

NotApprovedMsg == "Command not approved for execution"

\* the matches!(.., ApprovalStatus::Approved) test of execute_command
IsApproved(command_block) == command_block.approval_status.tag = "Approved"

\* execute_command up to the point where sh is started
execute_command_checks(pc, block_id) ==
    IF block_id \notin DOMAIN pc
    THEN NotFound
    ELSE IF ~IsApproved(pc[block_id])
         THEN Err(NotApprovedMsg)
         ELSE validate_command(pc[block_id].command)

\* Command::new("sh").arg("-c").arg(command).current_dir(dir).output()?
\* the host starts sh in a directory that exists, unless it refuses for a
\* reason of its own (sh missing, no more processes, ...)
SpawnResult(working_directory, started) ==
    IF started /\ DirExists(working_directory) THEN Ok ELSE Err("failed to start sh")

Returned(op, block_id, result, output) ==
    [op |-> op, id |-> block_id, result |-> result, output |-> output]

(***************************************************************************)
(* Plugin: src/agent/command_executor.rs and the renderer of               *)
(* src/ui/visual_blocks.rs.  The plugin CommandBlock has no id field; the  *)
(* renderer hands out the ids block_1, block_2, ...                        *)
(***************************************************************************)
PluginDir == "/tmp"

\* CommandExecutor::present_command
present_command(command, working_directory, description) ==
    [command |-> command,
     working_directory |-> working_directory,
     description |-> description,
     risk_level |-> assess_risk_level(command),
     approval_status |-> Pending]

\* CommandExecutor::get_command_block_by_id: a fixed placeholder block
get_command_block_by_id(block_id) ==
    [command |-> <<>>,
     working_directory |-> "",
     description |-> "",
     risk_level |-> "Low",
     approval_status |-> Pending]

\* VisualBlockRenderer::update_command_block via update_command_status
update_command_block(blocks, id, command_block) ==
    IF id \in DOMAIN blocks
    THEN [blocks |-> [blocks EXCEPT ![id] = command_block], result |-> Ok]
    ELSE [blocks |-> blocks, result |-> Err("Block not found")]

\* the CommandOutput of the Err(e) arm of execute_command_async
error_output ==
    [stdout |-> <<>>, stderr |-> "Command execution failed", exit_code |-> -1,
     success |-> FALSE]

\* the CommandOutput of the timeout arm of execute_command_async
timeout_output ==
    [stdout |-> <<>>, stderr |-> "Command timed out", exit_code |-> -1,
     success |-> FALSE]

\* tokio::time::timeout(limit, future).await.  tokio polls the wrapped future
\* before it looks at the deadline.  execute_command_with_timeout contains no
\* await: its first poll runs std::process::Command::output() to the end and
\* is Ready, so the deadline decides only for a future that is not ready on
\* its first poll.
tokio_timeout(limit, elapsed, ready_on_first_poll) ==
    IF ready_on_first_poll THEN "Ok"
    ELSE IF elapsed >= limit THEN "Elapsed" ELSE "Ok"

PluginCall(op, block_id, command_block, result, blocked_for) ==
    [op |-> op, block_id |-> block_id, command_block |-> command_block,
     result |-> result, blocked_for |-> blocked_for]

VARIABLES
    pending_commands,   \* container CommandExecutor.pending_commands
    uuid_next,          \* number of block ids handed out by Uuid::new_v4
    child,              \* <<>> or <<p>>: the sh process the container waits on
    spawn_count,        \* per block id: how often its command was given to sh
    last,               \* the last registry call and what it returned
    cancelled,          \* history: ids rejected before sh was ever started for them
    active_blocks,      \* plugin VisualBlockRenderer.active_blocks
    next_block_id,      \* plugin VisualBlockRenderer.next_block_id
    plugin_timeout,     \* plugin CommandExecutor.command_timeout (seconds)
    plugin_working_directory, \* plugin CommandExecutor.working_directory
    plugin_child,       \* <<>> or <<p>>: the sh process the plugin thread waits on
    call,               \* the plugin call in progress or last returned, with the
                        \* caller's command block as the call left it
    answer,             \* the command text under check, the last check made on it
                        \* and the value that check returned
    rated,              \* history: the risk levels the present_command calls on the
                        \* text have returned, oldest first
    integration_pending,\* CommandIntegration.pending_commands
    channel,            \* the events sent on approval_sender and not yet received
    waiter,             \* <<>> or <<id>>: request_command_approval is suspended in
                        \* wait_for_approval(id)
    held_locks,         \* the Mutex guards held by the suspended call of
                        \* CommandIntegration
    swept,              \* history: the ids the last cleanup_completed_commands removed
    active_approvals,   \* CommandApprovalUI.active_approvals
    approval_next,      \* number of approval ids handed out by Uuid::new_v4
    current_spec,       \* SpecWorkflow.current_spec: <<>> or <<the open spec>>
    spec_dir_exists,    \* the feature's directory under spec_root exists
    spec_files,         \* the documents in the feature's directory
    spec_call,          \* the last SpecWorkflow call and what it returned
    last_check,         \* HealthMonitor.last_check: <<>> or <<the result>>
    failure_count,      \* HealthMonitor.failure_count
    max_failures,       \* HealthMonitor.max_failures
    container_start_time, \* HealthMonitor.container_start_time: <<>>, <<"grace">> while
                        \* the startup grace period runs, <<"past">> after it
    failures_in_row,    \* history: record_failure calls since the last
                        \* record_success, record_container_start or reset
    health_op           \* history: the last HealthMonitor call

container_vars == <<pending_commands, uuid_next, child, spawn_count, last, cancelled>>

plugin_vars == <<active_blocks, next_block_id, plugin_timeout, plugin_working_directory,
                 plugin_child, call>>

classify_vars == <<answer, rated>>

integration_vars == <<integration_pending, channel, waiter, held_locks, swept>>

approval_vars == <<active_approvals, approval_next>>

spec_vars == <<current_spec, spec_dir_exists, spec_files, spec_call>>

health_vars == <<last_check, failure_count, max_failures, container_start_time,
                 failures_in_row, health_op>>

\* the state of the controller's spec workflow and health monitor, which no
\* command operation reads or writes
controller_vars == <<spec_vars, health_vars>>

\* the variables a container action leaves alone
outside_container ==
    <<plugin_vars, classify_vars, integration_vars, approval_vars, controller_vars>>

\* the variables a plugin executor action leaves alone
outside_plugin ==
    <<container_vars, classify_vars, integration_vars, approval_vars, controller_vars>>

\* the variables a check on a command text leaves alone
outside_classify ==
    <<container_vars, plugin_vars, integration_vars, approval_vars, controller_vars>>

\* the variables a SpecWorkflow call leaves alone
outside_spec ==
    <<container_vars, plugin_vars, classify_vars, integration_vars, approval_vars,
      health_vars>>

\* the variables a HealthMonitor call leaves alone
outside_health ==
    <<container_vars, plugin_vars, classify_vars, integration_vars, approval_vars,
      spec_vars>>

vars == <<container_vars, plugin_vars, classify_vars, integration_vars, approval_vars,
          controller_vars>>

\* SpecWorkflow::new and HealthMonitor::new
SpecCall(op, result) == [op |-> op, result |-> result]

SpecWorkflowNew ==
    /\ current_spec = <<>>
    /\ spec_dir_exists = FALSE
    /\ spec_files = {}
    /\ spec_call = SpecCall("new", Ok)

HealthMonitorNew ==
    /\ last_check = <<>>
    /\ failure_count = 0
    /\ max_failures = DefaultMaxFailures
    /\ container_start_time = <<>>
    /\ failures_in_row = 0
    /\ health_op = "new"

Init ==
    /\ pending_commands = <<>>
    /\ uuid_next = 0
    /\ child = <<>>
    /\ spawn_count = [i \in BlockIds |-> 0]
    /\ last = Returned("new", 0, Ok, <<>>)
    /\ cancelled = {}
    /\ active_blocks = <<>>
    /\ next_block_id = 1
    /\ plugin_timeout = DefaultTimeoutSecs
    /\ plugin_working_directory = PluginDir
    /\ plugin_child = <<>>
    /\ call = PluginCall("new", 0, <<>>, Ok, 0)
    /\ answer = [op |-> "new", command |-> <<>>, value |-> Ok]
    /\ rated = <<>>
    /\ integration_pending = <<>>
    /\ channel = <<>>
    /\ waiter = <<>>
    /\ held_locks = {}
    /\ swept = {}
    /\ active_approvals = <<>>
    /\ approval_next = 0
    /\ SpecWorkflowNew
    /\ HealthMonitorNew

\* the container thread is not inside Command::output()
Idle == child = <<>>

\* RequestHandler::handle_command_execution -> create_command_block
CreateCommandBlock(command, working_directory, description) ==
    /\ Idle
    /\ UNCHANGED outside_container
    /\ uuid_next < MaxBlocks
    /\ uuid_next' = uuid_next + 1
    /\ pending_commands' = create_command_block(pending_commands, uuid_next + 1,
                               command, working_directory, description)
    /\ last' = Returned("create_command_block", uuid_next + 1, Ok, <<>>)
    /\ UNCHANGED <<child, spawn_count, cancelled>>

\* RequestHandler::get_command_block -> CommandExecutor::get_command_block;
\* the returned value is kept in the output field of the call record
GetCommandBlock(block_id) ==
    /\ Idle
    /\ UNCHANGED outside_container
    /\ LET r == get_command_block(pending_commands, block_id)
       IN  last' = Returned("get_command_block", block_id, r.result, r.command_block)
    /\ UNCHANGED <<pending_commands, uuid_next, child, spawn_count, cancelled>>

\* CommandExecutor::approve_command called on its own
ApproveCommand(block_id) ==
    /\ Idle
    /\ UNCHANGED outside_container
    /\ LET r == approve_command(pending_commands, block_id)
       IN  /\ pending_commands' = r.pending
           /\ last' = Returned("approve_command", block_id, r.result, <<>>)
    /\ UNCHANGED <<uuid_next, child, spawn_count, cancelled>>

\* RequestHandler::reject_command -> CommandExecutor::reject_command
RejectCommand(block_id) ==
    /\ Idle
    /\ UNCHANGED outside_container
    /\ LET r == reject_command(pending_commands, block_id)
       IN  /\ pending_commands' = r.pending
           /\ last' = Returned("reject_command", block_id, r.result, <<>>)
           /\ cancelled' = IF r.result.ok /\ spawn_count[block_id] = 0
                           THEN cancelled \cup {block_id}
                           ELSE cancelled
    /\ UNCHANGED <<uuid_next, child, spawn_count>>

\* execute_command from its entry to the blocking wait in Command::output():
\* either it returns an error at once or sh is started on the block's command
StartExecute(op, pc, block_id) ==
    LET checks == execute_command_checks(pc, block_id)
    IN  /\ pending_commands' = pc
        /\ IF ~checks.ok
           THEN /\ last' = Returned(op, block_id, checks, <<>>)
                /\ UNCHANGED <<child, spawn_count>>
           ELSE \E started \in BOOLEAN :
                IF ~SpawnResult(pc[block_id].working_directory, started).ok
                THEN /\ last' = Returned(op, block_id,
                                         SpawnResult(pc[block_id].working_directory, started),
                                         <<>>)
                     /\ UNCHANGED <<child, spawn_count>>
                ELSE /\ spawn_count[block_id] < MaxSpawns
                     /\ child' = << [block_id |-> block_id,
                                     command |-> pc[block_id].command,
                                     working_directory |-> pc[block_id].working_directory,
                                     op |-> op] >>
                     /\ spawn_count' = [spawn_count EXCEPT ![block_id] = @ + 1]
                     /\ last' = Returned(op, block_id, Waiting, <<>>)

\* CommandExecutor::execute_command called on its own
ExecuteCommand(block_id) ==
    /\ Idle
    /\ UNCHANGED outside_container
    /\ StartExecute("execute_command", pending_commands, block_id)
    /\ UNCHANGED <<uuid_next, cancelled>>

\* RequestHandler::approve_command: approve_command(id)?; execute_command(id)?
HandlerApproveCommand(block_id) ==
    /\ Idle
    /\ UNCHANGED outside_container
    /\ LET r == approve_command(pending_commands, block_id)
       IN  IF ~r.result.ok
           THEN /\ pending_commands' = r.pending
                /\ last' = Returned("handler_approve_command", block_id, r.result, <<>>)
                /\ UNCHANGED <<child, spawn_count>>
           ELSE StartExecute("handler_approve_command", r.pending, block_id)
    /\ UNCHANGED <<uuid_next, cancelled>>

\* a sh whose output is stored on every approved block
ExecuteReturnEveryApproved ==
    /\ ~Idle
    /\ UNCHANGED outside_container
    /\ \E status \in OsStatuses :
        LET output == CaptureOutput(child[1].command, status)
        IN  /\ pending_commands' =
                  [k \in DOMAIN pending_commands |->
                      IF pending_commands[k].approval_status = Approved
                      THEN [pending_commands[k] EXCEPT !.approval_status = Executed(output)]
                      ELSE pending_commands[k]]
            /\ last' = Returned(child[1].op, child[1].block_id, Ok, <<output>>)
    /\ child' = <<>>
    /\ UNCHANGED <<uuid_next, spawn_count, cancelled>>

\* sh exits: Command::output() returns, execute_command stores the output
ExecuteReturn ==
    /\ ~Idle
    /\ UNCHANGED outside_container
    /\ \E status \in OsStatuses :
        LET output == CaptureOutput(child[1].command, status)
        IN  /\ pending_commands' =
                  [pending_commands EXCEPT ![child[1].block_id].approval_status = Executed(output)]
            /\ last' = Returned(child[1].op, child[1].block_id, Ok, <<output>>)
    /\ child' = <<>>
    /\ UNCHANGED <<uuid_next, spawn_count, cancelled>>

\* CommandExecutor::cleanup_executed_commands
NotExecuted(command_block) == command_block.approval_status.tag # "Executed"

cleanup_executed_commands(pc) ==
    [k \in {j \in DOMAIN pc : NotExecuted(pc[j])} |-> pc[k]]

CleanupExecutedCommands ==
    /\ Idle
    /\ UNCHANGED outside_container
    /\ pending_commands' = cleanup_executed_commands(pending_commands)
    /\ last' = Returned("cleanup_executed_commands", 0, Ok, <<>>)
    /\ UNCHANGED <<uuid_next, child, spawn_count, cancelled>>

Next ==
    \/ \E command \in Commands, working_directory \in Dirs, description \in Descriptions :
           CreateCommandBlock(command, working_directory, description)
    \/ \E block_id \in BlockIds : GetCommandBlock(block_id)
    \/ \E block_id \in BlockIds : ApproveCommand(block_id)
    \/ \E block_id \in BlockIds : RejectCommand(block_id)
    \/ \E block_id \in BlockIds : ExecuteCommand(block_id)
    \/ \E block_id \in BlockIds : HandlerApproveCommand(block_id)
    \/ ExecuteReturn
    \/ CleanupExecutedCommands

Spec == Init /\ [][Next]_vars

(***************************************************************************)
(* Two proposals side by side: the registry after two                     *)
(* create_command_block calls, each with a valid command, and the         *)
(* clients' calls on the two blocks in any order.                         *)
(***************************************************************************)
PairIds == {1, 2}

ValidCommands == {command \in Commands : validate_command(command).ok}

PairInit ==
    /\ \E commands \in [PairIds -> ValidCommands] :
           pending_commands =
               [block_id \in PairIds |->
                   create_command_block(<<>>, block_id, commands[block_id],
                                        "/tmp", "x")[block_id]]
    /\ uuid_next = 2
    /\ child = <<>>
    /\ spawn_count = [i \in PairIds |-> 0]
    /\ last = Returned("create_command_block", 2, Ok, <<>>)
    /\ cancelled = {}
    /\ active_blocks = <<>>
    /\ next_block_id = 1
    /\ plugin_timeout = DefaultTimeoutSecs
    /\ plugin_working_directory = PluginDir
    /\ plugin_child = <<>>
    /\ call = PluginCall("new", 0, <<>>, Ok, 0)
    /\ answer = [op |-> "new", command |-> <<>>, value |-> Ok]
    /\ rated = <<>>
    /\ integration_pending = <<>>
    /\ channel = <<>>
    /\ waiter = <<>>
    /\ held_locks = {}
    /\ swept = {}
    /\ active_approvals = <<>>
    /\ approval_next = 0
    /\ SpecWorkflowNew
    /\ HealthMonitorNew

PairNext ==
    \/ \E block_id \in PairIds : GetCommandBlock(block_id)
    \/ \E block_id \in PairIds : ApproveCommand(block_id)
    \/ \E block_id \in PairIds : RejectCommand(block_id)
    \/ \E block_id \in PairIds : ExecuteCommand(block_id)
    \/ \E block_id \in PairIds : HandlerApproveCommand(block_id)
    \/ ExecuteReturn
    \/ CleanupExecutedCommands

PairSpec == PairInit /\ [][PairNext]_vars

(***************************************************************************)
(* Plugin actions.                                                         *)
(***************************************************************************)
\* the plugin thread is not inside Command::output()
PluginIdle == plugin_child = <<>>

\* CommandExecutor::present_command_for_approval: the renderer stores the
\* block under a fresh id
PresentCommandForApproval(command, description) ==
    /\ PluginIdle
    /\ UNCHANGED outside_plugin
    /\ next_block_id <= MaxBlocks
    /\ active_blocks' = Insert(active_blocks, next_block_id,
                              present_command(command, plugin_working_directory, description))
    /\ next_block_id' = next_block_id + 1
    /\ call' = PluginCall("present_command_for_approval", next_block_id, <<>>, Ok, 0)
    /\ UNCHANGED <<plugin_timeout, plugin_working_directory, plugin_child>>

\* execute_command_async from its entry to the blocking wait in
\* Command::output(), which the first poll of the timeout future runs
StartAsync(op, command_block, block_id) ==
    IF ~IsApproved(command_block)
    THEN /\ call' = PluginCall(op, block_id, <<command_block>>, Err(NotApprovedMsg), 0)
         /\ UNCHANGED <<active_blocks, plugin_child>>
    ELSE LET shown == update_command_block(active_blocks, block_id, command_block)
         IN  IF ~shown.result.ok
             THEN /\ call' = PluginCall(op, block_id, <<command_block>>, shown.result, 0)
                  /\ UNCHANGED <<active_blocks, plugin_child>>
             ELSE \E started \in BOOLEAN :
                  IF ~SpawnResult(command_block.working_directory, started).ok
                  THEN \* output() failed: the Err(e) arm
                       LET failed == [command_block EXCEPT
                                        !.approval_status = Executed(error_output)]
                       IN  /\ active_blocks' =
                                 update_command_block(shown.blocks, block_id, failed).blocks
                           /\ call' = PluginCall(op, block_id, <<failed>>,
                                                 Err("Command execution failed"), 0)
                           /\ plugin_child' = <<>>
                  ELSE /\ active_blocks' = shown.blocks
                       /\ \E duration \in 1..MaxDuration :
                              plugin_child' = << [command |-> command_block.command,
                                                  working_directory |->
                                                      command_block.working_directory,
                                                  elapsed |-> 0,
                                                  duration |-> duration] >>
                       /\ call' = PluginCall(op, block_id, <<command_block>>, Waiting, 0)

\* a block as a caller may hand it to execute_command_async
CallerBlock(command, tag) ==
    [present_command(command, PluginDir, "x") EXCEPT
        !.approval_status = IF tag = "Executed"
                            THEN Executed(CaptureOutput(command, <<0>>))
                            ELSE [tag |-> tag]]

Tags == {"Pending", "Approved", "Rejected", "Executed"}

\* CommandExecutor::execute_command_async called with the caller's block
ExecuteCommandAsync(command, tag, block_id) ==
    /\ PluginIdle
    /\ UNCHANGED outside_plugin
    /\ StartAsync("execute_command_async", CallerBlock(command, tag), block_id)
    /\ UNCHANGED <<next_block_id, plugin_timeout, plugin_working_directory>>

\* plugin CommandExecutor::approve_command: approves the placeholder block
\* and executes it
PluginApproveCommand(block_id) ==
    /\ PluginIdle
    /\ UNCHANGED outside_plugin
    /\ StartAsync("approve_command",
                  [get_command_block_by_id(block_id) EXCEPT !.approval_status = Approved],
                  block_id)
    /\ UNCHANGED <<next_block_id, plugin_timeout, plugin_working_directory>>

\* one second passes while the plugin thread is blocked in Command::output()
PluginTick ==
    /\ ~PluginIdle
    /\ UNCHANGED outside_plugin
    /\ plugin_child[1].elapsed < plugin_child[1].duration
    /\ plugin_child' = << [plugin_child[1] EXCEPT !.elapsed = @ + 1] >>
    /\ call' = [call EXCEPT !.blocked_for = @ + 1]
    /\ UNCHANGED <<active_blocks, next_block_id, plugin_timeout, plugin_working_directory>>

\* sh exits: the first poll of the future is Ready and timeout() hands its
\* value to the match of execute_command_async
ExecuteAsyncReturn ==
    /\ ~PluginIdle
    /\ UNCHANGED outside_plugin
    /\ call.op # "execute_command"
    /\ plugin_child[1].elapsed = plugin_child[1].duration
    /\ \E status \in OsStatuses :
        LET output == IF tokio_timeout(plugin_timeout, plugin_child[1].elapsed, TRUE) = "Ok"
                      THEN CaptureOutput(plugin_child[1].command, status)
                      ELSE timeout_output
            done == [call.command_block[1] EXCEPT !.approval_status = Executed(output)]
            shown == update_command_block(active_blocks, call.block_id, done)
        IN  /\ active_blocks' = shown.blocks
            /\ call' = [call EXCEPT
                          !.command_block = <<done>>,
                          !.result = IF ~shown.result.ok THEN shown.result
                                     ELSE IF output = timeout_output
                                          THEN Err("Command execution timed out")
                                          ELSE Ok]
    /\ plugin_child' = <<>>
    /\ UNCHANGED <<next_block_id, plugin_timeout, plugin_working_directory>>

\* plugin CommandExecutor::execute_command (the synchronous version) from its
\* entry to the blocking wait in Command::output()
ExecuteCommandSync(command, tag) ==
    /\ PluginIdle
    /\ UNCHANGED outside_plugin
    /\ LET command_block == CallerBlock(command, tag)
       IN  IF ~IsApproved(command_block)
           THEN /\ call' = PluginCall("execute_command", 0, <<command_block>>,
                                      Err(NotApprovedMsg), 0)
                /\ UNCHANGED plugin_child
           ELSE \E started \in BOOLEAN :
                IF ~SpawnResult(command_block.working_directory, started).ok
                THEN /\ call' = PluginCall("execute_command", 0, <<command_block>>,
                                           SpawnResult(command_block.working_directory,
                                                       started), 0)
                     /\ UNCHANGED plugin_child
                ELSE /\ \E duration \in 1..MaxDuration :
                            plugin_child' = << [command |-> command_block.command,
                                                working_directory |->
                                                    command_block.working_directory,
                                                elapsed |-> 0,
                                                duration |-> duration] >>
                     /\ call' = PluginCall("execute_command", 0, <<command_block>>,
                                           Waiting, 0)
    /\ UNCHANGED <<active_blocks, next_block_id, plugin_timeout, plugin_working_directory>>

\* sh exits: the synchronous execute_command stores the output in the block
ExecuteSyncReturn ==
    /\ ~PluginIdle
    /\ UNCHANGED outside_plugin
    /\ call.op = "execute_command"
    /\ plugin_child[1].elapsed = plugin_child[1].duration
    /\ \E status \in OsStatuses :
          call' = [call EXCEPT
                     !.command_block =
                         << [call.command_block[1] EXCEPT !.approval_status =
                               Executed(CaptureOutput(plugin_child[1].command, status))] >>,
                     !.result = Ok]
    /\ plugin_child' = <<>>
    /\ UNCHANGED <<active_blocks, next_block_id, plugin_timeout, plugin_working_directory>>

\* plugin CommandExecutor::set_timeout
PluginSetTimeout(limit) ==
    /\ PluginIdle
    /\ UNCHANGED outside_plugin
    /\ plugin_timeout' = limit
    /\ call' = PluginCall("set_timeout", 0, <<>>, Ok, 0)
    /\ UNCHANGED <<active_blocks, next_block_id, plugin_working_directory, plugin_child>>

PluginNext ==
    \/ \E command \in Commands, description \in Descriptions :
           PresentCommandForApproval(command, description)
    \/ \E command \in Commands, tag \in Tags, block_id \in BlockIds :
           ExecuteCommandAsync(command, tag, block_id)
    \/ \E block_id \in BlockIds : PluginApproveCommand(block_id)
    \/ \E command \in Commands, tag \in Tags : ExecuteCommandSync(command, tag)
    \/ PluginTick
    \/ ExecuteAsyncReturn
    \/ ExecuteSyncReturn
    \/ \E limit \in 1..MaxTimeout : PluginSetTimeout(limit)

PluginSpec == Init /\ [][PluginNext]_vars

\* the calls that run a presented block: execute_command_async from its
\* entry to the return of sh
AsyncNext ==
    \/ \E command \in Commands, description \in Descriptions :
           PresentCommandForApproval(command, description)
    \/ \E command \in Commands, tag \in Tags, block_id \in BlockIds :
           ExecuteCommandAsync(command, tag, block_id)
    \/ PluginTick
    \/ ExecuteAsyncReturn

AsyncSpec == Init /\ [][AsyncNext]_vars

(***************************************************************************)
(* Checks on a command text: validate_command, the risk level that         *)
(* present_command assigns, and is_safe_command.  The texts are built from *)
(* the patterns the checks look for, the same patterns in upper case,      *)
(* harmless words and white space.                                         *)
(***************************************************************************)
Pieces ==
    {forbidden_patterns[i] : i \in 1..Len(forbidden_patterns)}
    \cup high_risk_patterns
    \cup medium_risk_patterns
    \cup { <<>>, <<" ">>, <<"\t">>, <<"l", "s">>,
           <<"S", "U", "D", "O">>, <<"M", "K", "F", "S">>, <<"R", "M", " ">>,
           <<"r", "m">>, <<"-", "r", "f", " ", "/">> }

RECURSIVE PieceTexts(_)
PieceTexts(n) ==
    IF n = 0 THEN {<<>>}
    ELSE {piece \o text : piece \in Pieces, text \in PieceTexts(n - 1)}

Texts == PieceTexts(MaxPieces)

\* a safety test that looks at the risk level only
is_safe_command_unvalidated(command) == assess_risk_level(command) # "High"

\* CommandExecutor::is_safe_command
is_safe_command(command) ==
    validate_command(command).ok /\ assess_risk_level(command) # "High"

\* a caller holds one command text and may put it to any of the checks
ClassifyInit ==
    /\ pending_commands = <<>>
    /\ uuid_next = 0
    /\ child = <<>>
    /\ spawn_count = [i \in BlockIds |-> 0]
    /\ last = Returned("new", 0, Ok, <<>>)
    /\ cancelled = {}
    /\ active_blocks = <<>>
    /\ next_block_id = 1
    /\ plugin_timeout = DefaultTimeoutSecs
    /\ plugin_working_directory = PluginDir
    /\ plugin_child = <<>>
    /\ call = PluginCall("new", 0, <<>>, Ok, 0)
    /\ \E command \in Texts : answer = [op |-> "new", command |-> command, value |-> Ok]
    /\ rated = <<>>
    /\ integration_pending = <<>>
    /\ channel = <<>>
    /\ waiter = <<>>
    /\ held_locks = {}
    /\ swept = {}
    /\ active_approvals = <<>>
    /\ approval_next = 0
    /\ SpecWorkflowNew
    /\ HealthMonitorNew

ValidateCommand ==
    /\ answer' = [op |-> "validate_command", command |-> answer.command,
                  value |-> validate_command(answer.command)]
    /\ UNCHANGED rated
    /\ UNCHANGED outside_classify

\* a rating that raises the level of a text it has rated before
PresentCommandEscalating ==
    /\ Len(rated) < MaxRatings
    /\ answer' = [op |-> "present_command", command |-> answer.command,
                  value |-> IF rated = <<>>
                            THEN present_command(answer.command, PluginDir, "x").risk_level
                            ELSE "High"]
    /\ rated' = Append(rated, answer'.value)
    /\ UNCHANGED outside_classify

PresentCommand ==
    /\ Len(rated) < MaxRatings
    /\ answer' = [op |-> "present_command", command |-> answer.command,
                  value |-> present_command(answer.command, PluginDir, "x").risk_level]
    /\ rated' = Append(rated, answer'.value)
    /\ UNCHANGED outside_classify

IsSafeCommand ==
    /\ answer' = [op |-> "is_safe_command", command |-> answer.command,
                  value |-> is_safe_command(answer.command)]
    /\ UNCHANGED rated
    /\ UNCHANGED outside_classify

ClassifyNext ==
    \/ ValidateCommand
    \/ PresentCommand
    \/ IsSafeCommand

ClassifySpec == ClassifyInit /\ [][ClassifyNext]_vars

(***************************************************************************)
(* CommandIntegration (agent/command_integration.rs): proposals wait in    *)
(* pending_commands for a decision that arrives on an unbounded channel.   *)
(* request_command_approval, handle_approval and handle_rejection take     *)
(* &mut self and cleanup_completed_commands takes &self, so none of them   *)
(* can be called while the future of request_command_approval is alive:    *)
(* the events a wait can see are the ones sent before it began.  The       *)
(* editor is taken to answer every request made to it.                     *)
(***************************************************************************)
ProposalIds == 1..MaxProposals

EventKinds == {"Approve", "Reject", "Timeout"}

\* CommandApprovalEvent
Event(kind, block_id) == [kind |-> kind, id |-> block_id]

\* HashMap::remove
Remove(map, key) == [k \in DOMAIN map \ {key} |-> map[k]]

\* wait_for_approval is not suspended
NoWaiter == waiter = <<>>

\* one turn of the loop of wait_for_approval(block_id) on a received event
wait_for_approval(pending, event, block_id) ==
    IF event.id = block_id /\ event.kind = "Approve" /\ block_id \in DOMAIN pending
    THEN [pending |-> Remove(pending, block_id), returned |-> TRUE, result |-> Ok,
          command_block |-> << [pending[block_id] EXCEPT !.approval_status = Approved] >>]
    ELSE IF event.id = block_id /\ event.kind = "Reject" /\ block_id \in DOMAIN pending
    THEN [pending |-> Remove(pending, block_id), returned |-> TRUE, result |-> Ok,
          command_block |-> << [pending[block_id] EXCEPT !.approval_status = Rejected] >>]
    ELSE IF event.id = block_id /\ event.kind = "Timeout"
    THEN [pending |-> Remove(pending, block_id), returned |-> TRUE,
          result |-> Err("Command approval timed out"), command_block |-> <<>>]
    ELSE [pending |-> pending, returned |-> FALSE, result |-> Waiting,
          command_block |-> <<>>]

\* CommandIntegration::request_command_approval up to the first suspension
\* of wait_for_approval.  The guard of pending_commands is dropped at the end
\* of its block; wait_for_approval takes the guard of approval_receiver
\* before its loop and keeps it until it returns.
RequestCommandApproval(command, description) ==
    /\ NoWaiter
    /\ PluginIdle
    /\ UNCHANGED controller_vars
    /\ UNCHANGED <<container_vars, classify_vars, approval_vars, plugin_timeout,
                   plugin_working_directory, plugin_child, channel,
                   swept>>
    /\ IF ~validate_command(command).ok
       THEN /\ call' = PluginCall("request_command_approval", 0, <<>>,
                                  validate_command(command), 0)
            /\ UNCHANGED <<active_blocks, next_block_id, integration_pending, waiter, held_locks>>
       ELSE /\ next_block_id <= MaxProposals
            /\ active_blocks' =
                   Insert(active_blocks, next_block_id,
                          present_command(command, plugin_working_directory, description))
            /\ next_block_id' = next_block_id + 1
            /\ integration_pending' =
                   Insert(integration_pending, next_block_id,
                          present_command(command, plugin_working_directory, description))
            /\ waiter' = <<next_block_id>>
            /\ held_locks' = {"approval_receiver"}
            /\ call' = PluginCall("request_command_approval", next_block_id, <<>>,
                                  Waiting, 0)

\* wait_for_approval resumes: receiver.recv() yields the oldest event
WaitRecv ==
    /\ ~NoWaiter
    /\ channel # <<>>
    /\ UNCHANGED controller_vars
    /\ UNCHANGED <<container_vars, classify_vars, approval_vars, active_blocks, next_block_id,
                   plugin_timeout, plugin_working_directory, plugin_child, swept>>
    /\ channel' = Tail(channel)
    /\ LET turn == wait_for_approval(integration_pending, Head(channel), waiter[1])
       IN  /\ integration_pending' = turn.pending
           /\ IF turn.returned
              THEN /\ waiter' = <<>>
                   /\ held_locks' = {}
                   /\ call' = [call EXCEPT !.result = turn.result,
                                           !.command_block = turn.command_block]
              ELSE UNCHANGED <<waiter, held_locks, call>>

\* CommandIntegration::handle_approval: send Approve(block_id), then the
\* executor's approve_command runs its placeholder block
HandleApproval(block_id) ==
    /\ NoWaiter
    /\ PluginIdle
    /\ Len(channel) < MaxEvents
    /\ channel' = Append(channel, Event("Approve", block_id))
    /\ StartAsync("handle_approval",
                  [get_command_block_by_id(block_id) EXCEPT !.approval_status = Approved],
                  block_id)
    /\ UNCHANGED controller_vars
    /\ UNCHANGED <<container_vars, classify_vars, approval_vars, next_block_id, plugin_timeout,
                   plugin_working_directory,
                   integration_pending, waiter, held_locks, swept>>

\* CommandIntegration::handle_rejection: send Reject(block_id), then the
\* executor's reject_command shows its placeholder block as Rejected
HandleRejection(block_id) ==
    /\ NoWaiter
    /\ PluginIdle
    /\ Len(channel) < MaxEvents
    /\ channel' = Append(channel, Event("Reject", block_id))
    /\ LET rejected == [get_command_block_by_id(block_id) EXCEPT
                          !.approval_status = Rejected]
           shown == update_command_block(active_blocks, block_id, rejected)
       IN  /\ active_blocks' = shown.blocks
           /\ call' = PluginCall("handle_rejection", block_id, <<rejected>>,
                                 shown.result, 0)
    /\ UNCHANGED controller_vars
    /\ UNCHANGED <<container_vars, classify_vars, approval_vars, next_block_id, plugin_timeout,
                   plugin_working_directory,
                   plugin_child, integration_pending, waiter, held_locks, swept>>

\* a closure that also keeps the blocks that were approved
IsPendingOrApproved(command_block) ==
    command_block.approval_status.tag \in {"Pending", "Approved"}

\* the closure of cleanup_completed_commands
IsPending(command_block) == command_block.approval_status.tag = "Pending"

\* CommandIntegration::cleanup_completed_commands
cleanup_completed_commands(pending) ==
    [k \in {j \in DOMAIN pending : IsPending(pending[j])} |-> pending[k]]

CleanupCompletedCommands ==
    /\ NoWaiter
    /\ PluginIdle
    /\ integration_pending' = cleanup_completed_commands(integration_pending)
    /\ swept' = DOMAIN integration_pending
                   \ DOMAIN cleanup_completed_commands(integration_pending)
    /\ call' = PluginCall("cleanup_completed_commands", 0, <<>>, Ok, 0)
    /\ UNCHANGED controller_vars
    /\ UNCHANGED <<container_vars, classify_vars, approval_vars, active_blocks, next_block_id,
                   plugin_timeout, plugin_working_directory, plugin_child, channel, waiter,
                   held_locks>>

IntegrationNext ==
    \/ \E command \in Commands, description \in Descriptions :
           RequestCommandApproval(command, description)
    \/ WaitRecv
    \/ \E block_id \in ProposalIds : HandleApproval(block_id)
    \/ \E block_id \in ProposalIds : HandleRejection(block_id)
    \/ CleanupCompletedCommands

IntegrationSpec == Init /\ [][IntegrationNext]_vars

\* tests::test_cleanup_functionality: the map is filled directly with blocks
\* in any state, then cleanup_completed_commands is called
EntryMaps ==
    UNION {[keys -> {CallerBlock(cmd_ls, tag) : tag \in Tags}] :
             keys \in SUBSET (1..MaxEntries)}

CleanupInit ==
    /\ pending_commands = <<>>
    /\ uuid_next = 0
    /\ child = <<>>
    /\ spawn_count = [i \in BlockIds |-> 0]
    /\ last = Returned("new", 0, Ok, <<>>)
    /\ cancelled = {}
    /\ active_blocks = <<>>
    /\ next_block_id = 1
    /\ plugin_timeout = DefaultTimeoutSecs
    /\ plugin_working_directory = PluginDir
    /\ plugin_child = <<>>
    /\ call = PluginCall("new", 0, <<>>, Ok, 0)
    /\ answer = [op |-> "new", command |-> <<>>, value |-> Ok]
    /\ rated = <<>>
    /\ integration_pending \in EntryMaps
    /\ channel = <<>>
    /\ waiter = <<>>
    /\ held_locks = {}
    /\ swept = {}
    /\ active_approvals = <<>>
    /\ approval_next = 0
    /\ SpecWorkflowNew
    /\ HealthMonitorNew

CleanupSpec == CleanupInit /\ [][CleanupCompletedCommands]_vars

\* the runtime resumes wait_for_approval whenever an event is queued; nothing
\* obliges a caller to make any call
IntegrationFairSpec == IntegrationSpec /\ WF_vars(WaitRecv)

(***************************************************************************)
(* CommandApprovalUI (ui/command_approval_ui.rs): the approvals on display,*)
(* keyed by ids of the form cmd_approval_<uuid>.  The renderer keys its    *)
(* blocks block_1, block_2, ..., so an approval id (written here as        *)
(* ApprovalIdBase + n) is never the id of a block of the renderer.  The    *)
(* age of an approval is the time since its created_at.                    *)
(***************************************************************************)
ApprovalIdBase == 100

ApprovalIds == {ApprovalIdBase + n : n \in 1..MaxApprovals}

\* CommandApprovalState
CommandApprovalState(command_block, block_id) ==
    [command_block |-> command_block, block_id |-> block_id, age |-> 0]

\* CommandApprovalUI::show_command_approval
ShowCommandApproval(command, description) ==
    /\ PluginIdle
    /\ approval_next < MaxApprovals
    /\ approval_next' = approval_next + 1
    /\ active_blocks' = Insert(active_blocks, next_block_id,
                              present_command(command, plugin_working_directory, description))
    /\ next_block_id' = next_block_id + 1
    /\ active_approvals' =
           Insert(active_approvals, ApprovalIdBase + approval_next + 1,
                  CommandApprovalState(
                      present_command(command, plugin_working_directory, description),
                      ApprovalIdBase + approval_next + 1))
    /\ call' = PluginCall("show_command_approval", ApprovalIdBase + approval_next + 1,
                          <<>>, Ok, 0)
    /\ UNCHANGED controller_vars
    /\ UNCHANGED <<container_vars, classify_vars, integration_vars, plugin_timeout,
                   plugin_working_directory,
                   plugin_child>>

\* CommandApprovalUI::approve_command and reject_command: the approval is
\* taken out of the map, given its new state and shown through the renderer
Decide(op, block_id, status) ==
    /\ IF block_id \in DOMAIN active_approvals
       THEN LET decided == [active_approvals[block_id].command_block EXCEPT
                              !.approval_status = status]
                shown == update_command_block(active_blocks, block_id, decided)
            IN  /\ active_approvals' = Remove(active_approvals, block_id)
                /\ active_blocks' = shown.blocks
                /\ call' = PluginCall(op, block_id, <<decided>>, shown.result, 0)
       ELSE /\ call' = PluginCall(op, block_id, <<>>,
                                  Err("Command approval not found"), 0)
            /\ UNCHANGED <<active_approvals, active_blocks>>
    /\ UNCHANGED controller_vars
    /\ UNCHANGED <<container_vars, classify_vars, integration_vars, next_block_id,
                   plugin_timeout, plugin_working_directory, plugin_child, approval_next>>

UiApproveCommand(block_id) ==
    /\ PluginIdle
    /\ Decide("ui_approve_command", block_id, Approved)

UiRejectCommand(block_id) ==
    /\ PluginIdle
    /\ Decide("ui_reject_command", block_id, Rejected)

\* CommandApprovalUI::update_execution_status
UpdateExecutionStatus(block_id, output) ==
    /\ PluginIdle
    /\ IF block_id \in DOMAIN active_approvals
       THEN LET done == [active_approvals[block_id].command_block EXCEPT
                           !.approval_status = Executed(output)]
                shown == update_command_block(active_blocks, block_id, done)
            IN  /\ active_approvals' =
                       [active_approvals EXCEPT ![block_id].command_block = done]
                /\ active_blocks' = shown.blocks
                /\ call' = PluginCall("update_execution_status", block_id, <<done>>,
                                      shown.result, 0)
       ELSE /\ call' = PluginCall("update_execution_status", block_id, <<>>, Ok, 0)
            /\ UNCHANGED <<active_approvals, active_blocks>>
    /\ UNCHANGED controller_vars
    /\ UNCHANGED <<container_vars, classify_vars, integration_vars, next_block_id,
                   plugin_timeout, plugin_working_directory, plugin_child, approval_next>>

\* the closure of cleanup_old_approvals
NotOlderThan(state, max_age) == state.age <= max_age

\* CommandApprovalUI::cleanup_old_approvals
cleanup_old_approvals(approvals, max_age) ==
    [k \in {j \in DOMAIN approvals : NotOlderThan(approvals[j], max_age)} |-> approvals[k]]

CleanupOldApprovals(max_age) ==
    /\ PluginIdle
    /\ active_approvals' = cleanup_old_approvals(active_approvals, max_age)
    /\ call' = PluginCall("cleanup_old_approvals", 0, <<>>, Ok, 0)
    /\ UNCHANGED controller_vars
    /\ UNCHANGED <<container_vars, classify_vars, integration_vars, active_blocks,
                   next_block_id, plugin_timeout, plugin_working_directory, plugin_child,
                   approval_next>>

\* CommandApprovalUI::close_approval_interface: remove_block fails for every
\* approval id and the failure is ignored; the map is cleared
CloseApprovalInterface ==
    /\ PluginIdle
    /\ active_approvals' = <<>>
    /\ call' = PluginCall("close_approval_interface", 0, <<>>, Ok, 0)
    /\ UNCHANGED controller_vars
    /\ UNCHANGED <<container_vars, classify_vars, integration_vars, active_blocks,
                   next_block_id, plugin_timeout, plugin_working_directory, plugin_child,
                   approval_next>>

\* time passes: every approval on display grows older
ApprovalTick ==
    /\ active_approvals # <<>>
    /\ \A block_id \in DOMAIN active_approvals : active_approvals[block_id].age < MaxAge
    /\ active_approvals' =
           [block_id \in DOMAIN active_approvals |->
               [active_approvals[block_id] EXCEPT !.age = @ + 1]]
    /\ UNCHANGED controller_vars
    /\ UNCHANGED <<container_vars, classify_vars, integration_vars, plugin_vars,
                   approval_next>>

ApprovalNext ==
    \/ \E command \in Commands, description \in Descriptions :
           ShowCommandApproval(command, description)
    \/ \E block_id \in ApprovalIds : UiApproveCommand(block_id)
    \/ \E block_id \in ApprovalIds : UiRejectCommand(block_id)
    \/ \E block_id \in ApprovalIds, status \in OsStatuses :
           UpdateExecutionStatus(block_id, CaptureOutput(cmd_ls, status))
    \/ \E max_age \in 0..(MaxAge - 1) : CleanupOldApprovals(max_age)
    \/ CloseApprovalInterface
    \/ ApprovalTick

ApprovalSpec == Init /\ [][ApprovalNext]_vars

(***************************************************************************)
(* CommandWorkflow: src/controller/src/agent/command_workflow.rs.  It owns *)
(* the plugin executor (through CommandIntegration) and the approval UI.  *)
(***************************************************************************)
cmd_rm_file == <<"r", "m", " ", "f", "i", "l", "e">>

WorkflowCommands == Commands \cup {cmd_rm_file}

Paths == {"/tmp", "/home", "/etc/hosts", "/nonexistent"}

\* the id execute_safe_command makes up: "safe_exec_" and a fresh uuid, which
\* is never an id of the renderer
SafeExecId == 200

NotSafe == Err("Command is not safe for automatic execution")

InvalidWorkingDirectory == Err("Invalid working directory")

\* a setter that accepts every path that exists
set_working_directory_any_path(current, path) ==
    IF PathExists(path)
    THEN [working_directory |-> path, result |-> Ok]
    ELSE [working_directory |-> current, result |-> InvalidWorkingDirectory]

\* CommandExecutor::set_working_directory
set_working_directory(current, path) ==
    IF PathExists(path) /\ DirExists(path)
    THEN [working_directory |-> path, result |-> Ok]
    ELSE [working_directory |-> current, result |-> InvalidWorkingDirectory]

\* CommandWorkflow::set_working_directory -> CommandExecutor::set_working_directory
SetWorkingDirectory(path) ==
    /\ PluginIdle
    /\ UNCHANGED outside_plugin
    /\ LET r == set_working_directory(plugin_working_directory, path)
       IN  /\ plugin_working_directory' = r.working_directory
           /\ call' = PluginCall("set_working_directory", 0, <<>>, r.result, 0)
    /\ UNCHANGED <<active_blocks, next_block_id, plugin_timeout, plugin_child>>

\* CommandWorkflow::execute_command_with_approval: validate, present, show;
\* the block is returned Pending
WorkflowExecuteCommandWithApproval(command, description) ==
    /\ PluginIdle
    /\ IF ~validate_command(command).ok
       THEN /\ call' = PluginCall("execute_command_with_approval", 0, <<>>,
                                  validate_command(command), 0)
            /\ UNCHANGED <<active_blocks, next_block_id, active_approvals, approval_next>>
       ELSE LET command_block ==
                    present_command(command, plugin_working_directory, description)
                block_id == ApprovalIdBase + approval_next + 1
            IN  /\ approval_next < MaxApprovals
                /\ approval_next' = approval_next + 1
                /\ active_blocks' = Insert(active_blocks, next_block_id, command_block)
                /\ next_block_id' = next_block_id + 1
                /\ active_approvals' = Insert(active_approvals, block_id,
                                              CommandApprovalState(command_block, block_id))
                /\ call' = PluginCall("execute_command_with_approval", block_id,
                                      <<command_block>>, Ok, 0)
    /\ UNCHANGED controller_vars
    /\ UNCHANGED <<container_vars, classify_vars, integration_vars, plugin_timeout,
                   plugin_working_directory, plugin_child>>

\* CommandWorkflow::handle_approval: approval_ui.approve_command(id)?, then
\* execute_command_async on the approved block
WorkflowHandleApproval(block_id) ==
    /\ PluginIdle
    /\ IF block_id \in DOMAIN active_approvals /\ block_id \in DOMAIN active_blocks
       THEN /\ active_approvals' = Remove(active_approvals, block_id)
            /\ StartAsync("handle_approval",
                          [active_approvals[block_id].command_block EXCEPT
                              !.approval_status = Approved],
                          block_id)
            /\ UNCHANGED controller_vars
            /\ UNCHANGED <<container_vars, classify_vars, integration_vars, next_block_id,
                           plugin_timeout, plugin_working_directory, approval_next>>
       ELSE Decide("handle_approval", block_id, Approved)

\* CommandWorkflow::handle_rejection -> approval_ui.reject_command
WorkflowHandleRejection(block_id) ==
    /\ PluginIdle
    /\ Decide("handle_rejection", block_id, Rejected)

\* CommandWorkflow::execute_safe_command
ExecuteSafeCommand(command, description) ==
    /\ PluginIdle
    /\ UNCHANGED outside_plugin
    /\ IF ~is_safe_command(command)
       THEN /\ call' = PluginCall("execute_safe_command", 0, <<>>, NotSafe, 0)
            /\ UNCHANGED <<active_blocks, plugin_child>>
       ELSE StartAsync("execute_safe_command",
                       [present_command(command, plugin_working_directory, description)
                           EXCEPT !.approval_status = Approved],
                       SafeExecId)
    /\ UNCHANGED <<next_block_id, plugin_timeout, plugin_working_directory>>

WorkflowNext ==
    \/ \E command \in WorkflowCommands, description \in Descriptions :
           WorkflowExecuteCommandWithApproval(command, description)
    \/ \E block_id \in ApprovalIds : WorkflowHandleApproval(block_id)
    \/ \E block_id \in ApprovalIds : WorkflowHandleRejection(block_id)
    \/ \E command \in WorkflowCommands, description \in Descriptions :
           ExecuteSafeCommand(command, description)
    \/ \E path \in Paths : SetWorkingDirectory(path)

WorkflowSpec == Init /\ [][WorkflowNext]_vars

(***************************************************************************)
(* Claims about the container registry, checked under Spec.                *)
(***************************************************************************)
StatusOf(block_id) == pending_commands[block_id].approval_status

Known(block_id) == block_id \in DOMAIN pending_commands

\* C1: execute_command on a block whose state is not Approved (Pending,
\* Rejected or Executed) returns 'Command not approved for execution',
\* starts no shell process and leaves the registry as it was.
C1_ExecuteOnlyWhenApproved ==
    [][\A block_id \in BlockIds :
          (ExecuteCommand(block_id) /\ Known(block_id)
             /\ StatusOf(block_id).tag # "Approved")
          => /\ last'.result = Err(NotApprovedMsg)
             /\ pending_commands' = pending_commands
             /\ spawn_count' = spawn_count
             /\ child' = <<>>]_vars

\* C1 witness: execute_command was refused on a block that is Rejected
C1_Witness ==
    /\ last.op = "execute_command"
    /\ last.result = Err(NotApprovedMsg)
    /\ Known(last.id)
    /\ StatusOf(last.id).tag = "Rejected"
    /\ spawn_count[last.id] = 0

\* C2: at-most-once execution: whatever calls are made, the command of a
\* block id is given to the shell at most once.
C2_AtMostOnce == \A block_id \in BlockIds : spawn_count[block_id] <= 1

\* C3: a block that was rejected before its command was ever started is never
\* started afterwards.
C3_RejectedNeverSpawned == \A block_id \in cancelled : spawn_count[block_id] = 0

\* C4: creating a block for a command that fails validation returns an error
\* and inserts nothing.
C4_InvalidNeverInserted ==
    [][\A command \in Commands, working_directory \in Dirs, description \in Descriptions :
          (CreateCommandBlock(command, working_directory, description)
             /\ ~validate_command(command).ok)
          => /\ ~last'.result.ok
             /\ pending_commands' = pending_commands]_vars

\* C5: approve_command succeeds exactly on a Pending block, which becomes
\* Approved; in any other state it returns an error and changes nothing.
C5_ApproveOnlyFromPending ==
    [][\A block_id \in BlockIds :
          (ApproveCommand(block_id) /\ Known(block_id))
          => IF StatusOf(block_id).tag = "Pending"
             THEN last'.result.ok /\ pending_commands'[block_id].approval_status = Approved
             ELSE ~last'.result.ok /\ pending_commands' = pending_commands]_vars

\* C6: reject_command succeeds exactly on a Pending block, which becomes
\* Rejected; in any other state it returns an error and changes nothing.
C6_RejectOnlyFromPending ==
    [][\A block_id \in BlockIds :
          (RejectCommand(block_id) /\ Known(block_id))
          => IF StatusOf(block_id).tag = "Pending"
             THEN last'.result.ok /\ pending_commands'[block_id].approval_status = Rejected
             ELSE ~last'.result.ok /\ pending_commands' = pending_commands]_vars

\* the transitions of Pending, {Approved | Rejected}, Executing, {Executed | Failed}
PathStep(from, to) ==
    \/ from = "Pending" /\ to \in {"Approved", "Rejected"}
    \/ from = "Approved" /\ to = "Executing"
    \/ from = "Executing" /\ to \in {"Executed", "Failed"}

\* C7: the states a block id is seen in follow the path Pending, then Approved
\* or Rejected, then Executing, then Executed or Failed: every change of state
\* is one step along that path.
C7_MonotonicPath ==
    [][\A block_id \in BlockIds :
          (Known(block_id) /\ block_id \in DOMAIN pending_commands'
             /\ pending_commands'[block_id].approval_status.tag # StatusOf(block_id).tag)
          => PathStep(StatusOf(block_id).tag,
                      pending_commands'[block_id].approval_status.tag)]_vars

\* C8: a block that is Rejected, Executed or Failed keeps its state and its
\* execution result for as long as it is in the registry.
C8_TerminalAbsorbing ==
    [][\A block_id \in BlockIds :
          (Known(block_id) /\ block_id \in DOMAIN pending_commands'
             /\ StatusOf(block_id).tag \in {"Rejected", "Executed", "Failed"})
          => pending_commands'[block_id].approval_status = StatusOf(block_id)]_vars

(***************************************************************************)
(* Claims about execution under the timeout, checked under PluginSpec.     *)
(***************************************************************************)
\* the caller's block says that the command timed out
TimedOutReported ==
    /\ call.command_block # <<>>
    /\ call.command_block[1].approval_status = Executed(timeout_output)

\* execute_command_async has returned after sh was started
ReturnedFromRun ==
    /\ call.op = "execute_command_async"
    /\ call.result # Waiting
    /\ call.blocked_for > 0

\* C10: execute_command_async on a command that runs longer than the
\* configured timeout ends with the timeout failure as its result, and its
\* caller is blocked for no longer than the timeout.
C10_TimeoutBoundsExecution ==
    /\ (call.op = "execute_command_async" /\ call.result = Waiting)
          => call.blocked_for <= plugin_timeout
    /\ (ReturnedFromRun /\ call.blocked_for > plugin_timeout) => TimedOutReported

\* the timeout arm of execute_command_async is never taken
TimeoutNeverReported == ~TimedOutReported

\* the plugin's execute_command_async and execute_command refuse a block that
\* is not Approved: the error is returned, the block is as the caller passed
\* it and no sh is started
PluginExecuteOnlyWhenApproved ==
    [][(PluginIdle /\ call'.op \in {"execute_command_async", "execute_command"}
          /\ call'.command_block # <<>>
          /\ call'.blocked_for = 0
          /\ call'.result # Waiting
          /\ call'.command_block[1].approval_status.tag \in {"Pending", "Rejected"})
       => /\ call'.result = Err(NotApprovedMsg)
          /\ plugin_child' = <<>>
          /\ active_blocks' = active_blocks]_vars

\* C11: when an execution ran past the configured timeout, the caller's block
\* ends in a failed outcome: exit_code -1, success false and a message that
\* names the timeout.
C11_TimeoutEndsFailed ==
    (ReturnedFromRun /\ call.blocked_for > plugin_timeout)
    => LET status == call.command_block[1].approval_status
       IN  /\ status.tag = "Executed"
           /\ status.output.exit_code = -1
           /\ status.output.success = FALSE
           /\ status.output.stderr = timeout_output.stderr

(***************************************************************************)
(* Claims about failures and races in the container, checked under Spec.   *)
(***************************************************************************)
\* the step is an execution of an Approved block with a valid command that
\* ends without a running sh: the host refused to start it
SpawnFailed(block_id) ==
    /\ Known(block_id)
    /\ validate_command(pending_commands[block_id].command).ok
    /\ \/ ExecuteCommand(block_id) /\ StatusOf(block_id).tag = "Approved"
       \/ HandlerApproveCommand(block_id)
    /\ child' = <<>>

\* C12: a failure at execution time (sh cannot be started) is not returned to
\* the caller as an error: the call completes normally and the block is left
\* in a terminal failed state that carries the reason.
C12_FailuresFolded ==
    [][\A block_id \in BlockIds :
          SpawnFailed(block_id)
          => /\ last'.result.ok
             /\ pending_commands'[block_id].approval_status.tag
                    \in {"Executed", "Failed"}]_vars

\* C15: when approve_command and reject_command race on a Pending block, the
\* calls are serialized and exactly one wins: the call that comes second finds
\* the block already decided, fails, and leaves the winner's state in place.
C15_RaceHasOneWinner ==
    [][\A block_id \in BlockIds :
          (Known(block_id)
             /\ StatusOf(block_id).tag \in {"Approved", "Rejected"}
             /\ last.op \in {"approve_command", "reject_command"}
             /\ last.id = block_id
             /\ last.result.ok
             /\ (ApproveCommand(block_id) \/ RejectCommand(block_id)))
          => /\ ~last'.result.ok
             /\ pending_commands'[block_id].approval_status = StatusOf(block_id)]_vars

(***************************************************************************)
(* Claims about the checks on a command text, checked under ClassifySpec.  *)
(***************************************************************************)
\* pattern occurs in text at some offset, character for character
Occurs(pattern, text) ==
    \E offset \in 0..(Len(text) - Len(pattern)) :
        \A k \in 1..Len(pattern) : text[offset + k] = pattern[k]

\* C19: the risk level of a command is High if its text contains any
\* high-risk pattern (even when it also contains a medium-risk pattern),
\* Medium if it contains no high-risk pattern but some medium-risk pattern,
\* and Low otherwise; a pattern matches only as a case-sensitive substring of
\* the unmodified text.
C19_RiskTiers ==
    answer.op = "present_command"
    => LET high == \E pattern \in high_risk_patterns : Occurs(pattern, answer.command)
           medium == \E pattern \in medium_risk_patterns : Occurs(pattern, answer.command)
       IN  /\ high => answer.value = "High"
           /\ (~high /\ medium) => answer.value = "Medium"
           /\ (~high /\ ~medium) => answer.value = "Low"

\* C19 witness: a text with both a high-risk and a medium-risk pattern was
\* rated High
C19_Witness ==
    /\ answer.op = "present_command"
    /\ answer.command = <<"s", "u", "d", "o", "r", "m", " ">>
    /\ answer.value = "High"

DenyList == {forbidden_patterns[i] : i \in 1..Len(forbidden_patterns)}

\* C20: validate_command fails with the empty-command error exactly when the
\* text is empty after trimming, fails with the forbidden-pattern error that
\* names a deny-list literal found in the text exactly when the text contains
\* one of the three literals, and succeeds in every other case.
C20_ValidateCases ==
    answer.op = "validate_command"
    => LET blank == \A i \in 1..Len(answer.command) : answer.command[i] \in Whitespace
           denied == {pattern \in DenyList : Occurs(pattern, answer.command)}
       IN  /\ blank <=> answer.value = Err("Command cannot be empty")
           /\ (denied # {})
                 <=> /\ answer.value.err = "Command contains forbidden pattern"
                     /\ answer.value.pattern \in denied
           /\ (~blank /\ denied = {}) <=> answer.value = Ok

\* C20 witness: a text of white space only was refused as empty
C20_Witness ==
    /\ answer.op = "validate_command"
    /\ answer.command = <<" ", "\t">>
    /\ answer.value = Err("Command cannot be empty")

(***************************************************************************)
(* Claims about waiting for a decision, checked under IntegrationSpec.     *)
(***************************************************************************)
\* the events of a channel, each with the number of times it is queued
Queued(events, event) == Cardinality({i \in 1..Len(events) : events[i] = event})

\* C13: while wait_for_approval waits for the decision on one proposal, a
\* decision received for a different proposal is not dropped: it stays
\* available on the channel for the waiter of that proposal.
C13_OtherDecisionsKept ==
    [][(~NoWaiter /\ channel # <<>> /\ Head(channel).id # waiter[1])
       => Queued(channel', Head(channel)) >= Queued(channel, Head(channel))]_vars

\* C17: a record leaves pending_commands only through the cleanup call:
\* delivering a decision or a timeout to the waiter never removes one.
C17_OnlyCleanupRemoves ==
    [][(\E block_id \in DOMAIN integration_pending :
            block_id \notin DOMAIN integration_pending')
       => call'.op = "cleanup_completed_commands"]_vars

\* C14: liveness: a proposal does not wait for ever.  If no decision for it
\* arrives, a Timeout event is delivered after the configured wait and the
\* wait ends (with 'Command approval timed out'), so every wait that begins
\* eventually ends.
C14_EveryWaitEnds == (~NoWaiter) ~> NoWaiter

(***************************************************************************)
(* Claims about cleanup_completed_commands, checked under CleanupSpec.     *)
(***************************************************************************)
\* C18: after cleanup_completed_commands the stored commands are exactly the
\* ones that were Pending before the call: every Pending entry is kept as it
\* was and every entry in any other state is removed.
C18_CleanupKeepsPending ==
    [][CleanupCompletedCommands
       => /\ DOMAIN integration_pending' =
                {block_id \in DOMAIN integration_pending :
                    integration_pending[block_id].approval_status = Pending}
          /\ \A block_id \in DOMAIN integration_pending' :
                integration_pending'[block_id] = integration_pending[block_id]]_vars

\* C18 witness: a cleanup removed an entry and kept a Pending one
C18_Witness ==
    /\ call.op = "cleanup_completed_commands"
    /\ swept # {}
    /\ \E block_id \in DOMAIN integration_pending :
          integration_pending[block_id].approval_status = Pending

(***************************************************************************)
(* Claims about the cleanup of approvals, checked under ApprovalSpec.      *)
(***************************************************************************)
\* C16: a cleanup sweep removes only proposals in a terminal state
\* (Rejected, Executed, Failed): it never removes one that is Pending,
\* Approved or Executing.
C16_CleanupOnlyTerminal ==
    [][\A block_id \in DOMAIN active_approvals :
          (call'.op = "cleanup_old_approvals"
             /\ block_id \notin DOMAIN active_approvals')
          => active_approvals[block_id].command_block.approval_status.tag
                \in {"Rejected", "Executed", "Failed"}]_vars

\* C21: is_safe_command answers TRUE exactly when the text passes validation
\* (it is not blank and contains no deny-list literal) and is not rated High
\* (it contains no high-risk pattern); so every text rated High and every text
\* that fails validation is reported unsafe.
C21_SafeIffValidAndNotHigh ==
    answer.op = "is_safe_command"
    => LET blank == \A i \in 1..Len(answer.command) : answer.command[i] \in Whitespace
           denied == \E pattern \in DenyList : Occurs(pattern, answer.command)
           high == \E pattern \in high_risk_patterns : Occurs(pattern, answer.command)
       IN  answer.value <=> (~blank /\ ~denied /\ ~high)

\* C21 witness: a text that passes validation but is rated High was reported
\* unsafe
C21_Witness ==
    /\ answer.op = "is_safe_command"
    /\ answer.command = <<"s", "u", "d", "o", "r", "m", " ">>
    /\ validate_command(answer.command).ok
    /\ answer.value = FALSE

\* C22: execute_safe_command runs a command without a human decision only
\* when the command is low-risk: for a command that fails validation or whose
\* risk level is not Low it returns 'Command is not safe for automatic
\* execution' and starts no process.
C22_SafeOnlyLowRisk ==
    [][\A command \in WorkflowCommands, description \in Descriptions :
          (/\ ExecuteSafeCommand(command, description)
           /\ \/ ~validate_command(command).ok
              \/ assess_risk_level(command) # "Low")
          => /\ call'.result = NotSafe
             /\ plugin_child' = <<>>]_vars

\* no call of the workflow ever starts a process: the ids it executes under
\* are not ids of the renderer
WorkflowNeverSpawns == plugin_child = <<>>

\* C30: set_working_directory(path) succeeds and replaces the working
\* directory only when path exists and is a directory; otherwise it returns
\* an error and the working directory configured before stays.
C30_SetWorkingDirectory ==
    [][\A path \in Paths :
          SetWorkingDirectory(path)
          => IF path \in HostDirs
             THEN /\ call'.result = Ok
                  /\ plugin_working_directory' = path
             ELSE /\ ~call'.result.ok
                  /\ plugin_working_directory' = plugin_working_directory]_vars

\* C30 witness: after the directory was replaced by another one, a call with
\* an unusable path failed and the replacement is still configured
C30_Witness ==
    /\ call.op = "set_working_directory"
    /\ ~call.result.ok
    /\ plugin_working_directory = "/home"
    /\ plugin_working_directory # PluginDir

\* C23: valid proposals that are approved and executed side by side each
\* reach Executed, the result recorded on a proposal is the output of that
\* proposal's own command, and a call on one id never changes the record of
\* another id.
C23_ProposalsIsolated ==
    /\ [](\A block_id \in DOMAIN pending_commands :
             StatusOf(block_id).tag = "Executed"
             => StatusOf(block_id).output.stdout
                    = ShellStdout(pending_commands[block_id].command))
    /\ [][\A block_id \in PairIds :
             /\ (\/ ApproveCommand(block_id)
                 \/ RejectCommand(block_id)
                 \/ ExecuteCommand(block_id)
                 \/ HandlerApproveCommand(block_id)
                 \/ (ExecuteReturn /\ child[1].block_id = block_id))
                => \A other \in DOMAIN pending_commands \ {block_id} :
                       /\ other \in DOMAIN pending_commands'
                       /\ pending_commands'[other] = pending_commands[other]
             /\ (ExecuteReturn /\ child[1].block_id = block_id)
                => StatusOf(block_id)'.tag = "Executed"]_vars

\* C23 witness: two proposals with different commands are both Executed, each
\* with the output of its own command, each started once
C23_Witness ==
    /\ {1, 2} \subseteq DOMAIN pending_commands
    /\ pending_commands[1].command # pending_commands[2].command
    /\ \A block_id \in {1, 2} :
           /\ StatusOf(block_id).tag = "Executed"
           /\ StatusOf(block_id).output.stdout
                  = ShellStdout(pending_commands[block_id].command)
           /\ spawn_count[block_id] = 1

\* the block is the proposal of scenario B: "ls -la" in /tmp
IsListing(command_block) ==
    /\ command_block.command = cmd_ls
    /\ command_block.working_directory = "/tmp"

\* C24: a valid low-risk command goes through the whole pipeline: proposing
\* "ls -la" in /tmp returns success and leaves a Pending block of risk level
\* Low, approving that block returns success and leaves it Approved, and
\* executing the approved block is refused by no check of the registry: once
\* sh has run, the call returns success and the block is Executed with the
\* output of the run, exit_code 0 and success true when ls exits with 0.
C24_PipelineLowRisk ==
    [][/\ \A description \in Descriptions :
              CreateCommandBlock(cmd_ls, "/tmp", description)
              => /\ last'.result = Ok
                 /\ last'.id \in DOMAIN pending_commands'
                 /\ pending_commands'[last'.id].approval_status = Pending
                 /\ pending_commands'[last'.id].risk_level = "Low"
       /\ \A block_id \in BlockIds :
              (/\ ApproveCommand(block_id)
               /\ Known(block_id)
               /\ IsListing(pending_commands[block_id])
               /\ StatusOf(block_id) = Pending)
              => /\ last'.result = Ok
                 /\ StatusOf(block_id)' = Approved
       /\ \A block_id \in BlockIds :
              (/\ ExecuteCommand(block_id)
               /\ Known(block_id)
               /\ IsListing(pending_commands[block_id])
               /\ StatusOf(block_id) = Approved)
              => \/ /\ last'.result = Waiting
                    /\ child' # <<>>
                    /\ child'[1].command = cmd_ls
                 \/ last'.result = SpawnResult("/tmp", FALSE)
       /\ \A status \in OsStatuses :
              (/\ ~Idle
               /\ ExecuteReturn
               /\ child[1].command = cmd_ls
               /\ last'.output = <<CaptureOutput(cmd_ls, status)>>)
              => /\ last'.result = Ok
                 /\ pending_commands'[child[1].block_id].approval_status
                        = Executed(last'.output[1])
                 /\ status = <<0>>
                    => /\ last'.output[1].exit_code = 0
                       /\ last'.output[1].success = TRUE]_vars

\* C24 witness: the proposal "ls -la" in /tmp was approved, ran once and is
\* Executed with exit_code 0 and success true, the call having returned success
C24_Witness ==
    /\ last.op = "execute_command"
    /\ last.result = Ok
    /\ Known(last.id)
    /\ IsListing(pending_commands[last.id])
    /\ pending_commands[last.id].risk_level = "Low"
    /\ StatusOf(last.id).tag = "Executed"
    /\ StatusOf(last.id).output.exit_code = 0
    /\ StatusOf(last.id).output.success = TRUE
    /\ spawn_count[last.id] = 1

\* C25: what a proposal says is fixed when it is created: no later operation
\* changes the risk level, the command text, the working directory or the
\* description of a block that exists before and after it; only the approval
\* status moves.  For the registry this is said of every operation, for the
\* blocks the plugin has presented it is said of approve_command.
C25_ProposalTextFixed ==
    [][/\ \A block_id \in DOMAIN pending_commands \cap DOMAIN pending_commands' :
              [pending_commands'[block_id] EXCEPT !.approval_status = Pending]
                  = [pending_commands[block_id] EXCEPT !.approval_status = Pending]
       /\ \A block_id \in DOMAIN active_blocks :
              PluginApproveCommand(block_id)
              => /\ block_id \in DOMAIN active_blocks'
                 /\ [active_blocks'[block_id] EXCEPT !.approval_status = Pending]
                        = [active_blocks[block_id] EXCEPT !.approval_status = Pending]]_vars

\* every CommandOutput that is stored on a block or was handed back to a caller
RecordedOutputs ==
    {pending_commands[k].approval_status.output :
         k \in {j \in DOMAIN pending_commands :
                    pending_commands[j].approval_status.tag = "Executed"}}
    \cup {active_blocks[k].approval_status.output :
              k \in {j \in DOMAIN active_blocks :
                         active_blocks[j].approval_status.tag = "Executed"}}
    \cup {call.command_block[k].approval_status.output :
              k \in {j \in DOMAIN call.command_block :
                         call.command_block[j].approval_status.tag = "Executed"}}

\* C26: every recorded execution result has success exactly when its
\* exit_code is 0; a run for which the host gives no exit code is recorded
\* with exit_code -1; and every result that no process produced (sh could not
\* be started, the run timed out) has exit_code -1 and success false.
C26_SuccessIffExitZero ==
    /\ \A output \in RecordedOutputs :
           /\ output.success <=> (output.exit_code = 0)
           /\ output.stdout = <<>> => (output.exit_code = -1 /\ ~output.success)
    /\ \A block_id \in DOMAIN active_blocks :
           (/\ active_blocks[block_id].approval_status.tag = "Executed"
            /\ active_blocks[block_id].approval_status.output.stdout # <<>>)
           => \E status \in OsStatuses :
                  /\ active_blocks[block_id].approval_status.output
                         = CaptureOutput(active_blocks[block_id].command, status)
                  /\ status = <<>>
                     <=> active_blocks[block_id].approval_status.output.exit_code = -1

\* C26 witness: a run for which the host gave no exit code is recorded on its
\* block with exit_code -1 and success false
C26_Witness ==
    \E block_id \in DOMAIN active_blocks :
        /\ active_blocks[block_id].approval_status.tag = "Executed"
        /\ active_blocks[block_id].approval_status.output
               = CaptureOutput(active_blocks[block_id].command, <<>>)
        /\ active_blocks[block_id].approval_status.output.exit_code = -1
        /\ ~active_blocks[block_id].approval_status.output.success

\* C27: get, approve, reject and execute called with an id that is not in the
\* registry return the not-found error and leave every stored record as it
\* was (and start nothing); get on an id that is in the registry returns a
\* copy of the stored block and changes nothing.
C27_UnknownIdChangesNothing ==
    [][\A block_id \in PairIds :
          /\ (/\ ~Known(block_id)
              /\ \/ GetCommandBlock(block_id)
                 \/ ApproveCommand(block_id)
                 \/ RejectCommand(block_id)
                 \/ ExecuteCommand(block_id)
                 \/ HandlerApproveCommand(block_id))
             => /\ last'.result = NotFound
                /\ last'.id = block_id
                /\ pending_commands' = pending_commands
                /\ spawn_count' = spawn_count
                /\ child' = <<>>
          /\ (Known(block_id) /\ GetCommandBlock(block_id))
             => /\ last'.result = Ok
                /\ last'.output = <<pending_commands[block_id]>>
                /\ pending_commands' = pending_commands]_vars

\* C27 witness: a call on an id that is no longer in the registry returned
\* not-found while the other proposal is still stored
C27_Witness ==
    /\ last.op \in {"approve_command", "reject_command", "execute_command",
                    "get_command_block"}
    /\ last.result = NotFound
    /\ ~Known(last.id)
    /\ DOMAIN pending_commands # {}

\* C28: a lock of the registry or of the decision channel is held only for
\* short sections without waiting: in no reachable state is such a lock held
\* while a shell command is running or while a waiter is suspended for the
\* human decision.
C28_NoLockWhileSuspended ==
    (~NoWaiter \/ ~PluginIdle \/ ~Idle) => held_locks = {}

Requirements == "Requirements"

Design == "Design"

Tasks == "Tasks"

Implementation == "Implementation"

SpecPhase == {Requirements, Design, Tasks, Implementation}

FeatureNames == {"", "feat"}

requirements_md == "requirements.md"

design_md == "design.md"

tasks_md == "tasks.md"

\* RequirementsDocument, DesignDocument, TasksDocument as load_* builds them
LoadedDocument == [approved |-> FALSE]

SpecContext(feature_name, current_phase, requirements, design, tasks) ==
    [feature_name |-> feature_name, current_phase |-> current_phase,
     requirements |-> requirements, design |-> design, tasks |-> tasks]

\* load_requirements, load_design, load_tasks behind the exists() test of
\* open_spec and reload_current_spec
load_if_exists(files, name, otherwise) ==
    IF name \in files THEN <<LoadedDocument>> ELSE otherwise

determine_current_phase(files) ==
    IF tasks_md \in files THEN [result |-> Ok, phase |-> Tasks]
    ELSE IF design_md \in files THEN [result |-> Ok, phase |-> Design]
    ELSE IF requirements_md \in files THEN [result |-> Ok, phase |-> Requirements]
    ELSE [result |-> Err("No spec documents found for feature"), phase |-> Requirements]

NotApprovedFor(phase) ==
    CASE phase = Requirements ->
            Err("Requirements must be approved before proceeding to design")
      [] phase = Design ->
            Err("Design must be approved before proceeding to tasks")
      [] OTHER ->
            Err("Tasks must be approved before proceeding to implementation")

\* the document next_phase and approve_current_phase look at in a phase
DocumentOf(spec, phase) ==
    CASE phase = Requirements -> spec.requirements
      [] phase = Design -> spec.design
      [] phase = Tasks -> spec.tasks
      [] OTHER -> <<>>

PhaseAfter(phase) ==
    CASE phase = Requirements -> Design
      [] phase = Design -> Tasks
      [] OTHER -> Implementation

PhaseBefore(phase) ==
    CASE phase = Implementation -> Tasks
      [] phase = Tasks -> Design
      [] OTHER -> Requirements

\* next_phase on an open spec: the approval test is made only on a document
\* that is loaded (if let Some(ref doc))
next_phase(spec) ==
    LET doc == DocumentOf(spec, spec.current_phase)
    IN  IF spec.current_phase # Implementation /\ doc # <<>> /\ ~doc[1].approved
        THEN [result |-> NotApprovedFor(spec.current_phase), spec |-> spec]
        ELSE [result |-> Ok,
              spec |-> [spec EXCEPT !.current_phase = PhaseAfter(spec.current_phase)]]

CreateNewSpec(feature_name) ==
    /\ IF feature_name = ""
       THEN /\ spec_call' = SpecCall("create_new_spec", Err("Feature name cannot be empty"))
            /\ UNCHANGED <<current_spec, spec_dir_exists, spec_files>>
       ELSE IF spec_dir_exists
       THEN /\ spec_call' = SpecCall("create_new_spec", Err("Spec already exists for feature"))
            /\ UNCHANGED <<current_spec, spec_dir_exists, spec_files>>
       ELSE /\ spec_dir_exists' = TRUE
            /\ spec_files' = spec_files \cup {requirements_md}
            /\ current_spec' = <<SpecContext(feature_name, Requirements, <<>>, <<>>, <<>>)>>
            /\ spec_call' = SpecCall("create_new_spec", Ok)
    /\ UNCHANGED outside_spec

OpenSpec(feature_name) ==
    /\ feature_name # ""
    /\ LET phase == determine_current_phase(spec_files)
       IN  IF ~spec_dir_exists
           THEN /\ spec_call' = SpecCall("open_spec", Err("Spec not found for feature"))
                /\ UNCHANGED current_spec
           ELSE IF ~phase.result.ok
           THEN /\ spec_call' = SpecCall("open_spec", phase.result)
                /\ UNCHANGED current_spec
           ELSE /\ current_spec' =
                      <<SpecContext(feature_name, phase.phase,
                                    load_if_exists(spec_files, requirements_md, <<>>),
                                    load_if_exists(spec_files, design_md, <<>>),
                                    load_if_exists(spec_files, tasks_md, <<>>))>>
                /\ spec_call' = SpecCall("open_spec", Ok)
    /\ UNCHANGED <<spec_dir_exists, spec_files>>
    /\ UNCHANGED outside_spec

NextPhase ==
    /\ IF current_spec = <<>>
       THEN /\ spec_call' = SpecCall("next_phase", Ok)
            /\ UNCHANGED current_spec
       ELSE LET r == next_phase(current_spec[1])
            IN  /\ current_spec' = <<r.spec>>
                /\ spec_call' = SpecCall("next_phase", r.result)
    /\ UNCHANGED <<spec_dir_exists, spec_files>>
    /\ UNCHANGED outside_spec

PreviousPhase ==
    /\ current_spec' =
          IF current_spec = <<>> THEN <<>>
          ELSE <<[current_spec[1] EXCEPT
                     !.current_phase = PhaseBefore(current_spec[1].current_phase)]>>
    /\ spec_call' = SpecCall("previous_phase", Ok)
    /\ UNCHANGED <<spec_dir_exists, spec_files>>
    /\ UNCHANGED outside_spec

GotoPhase(phase) ==
    /\ current_spec' =
          IF current_spec = <<>> THEN <<>>
          ELSE <<[current_spec[1] EXCEPT !.current_phase = phase]>>
    /\ spec_call' = SpecCall("goto_phase", Ok)
    /\ UNCHANGED <<spec_dir_exists, spec_files>>
    /\ UNCHANGED outside_spec

GenerateDesign ==
    /\ IF current_spec = <<>>
       THEN /\ spec_call' = SpecCall("generate_design", Ok)
            /\ UNCHANGED <<current_spec, spec_dir_exists, spec_files>>
       ELSE IF current_spec[1].requirements = <<>>
       THEN /\ spec_call' = SpecCall("generate_design",
                               Err("Requirements must be loaded before generating design"))
            /\ UNCHANGED <<current_spec, spec_dir_exists, spec_files>>
       ELSE /\ spec_dir_exists' = TRUE
            /\ spec_files' = spec_files \cup {design_md}
            /\ current_spec' = <<[current_spec[1] EXCEPT !.design = <<LoadedDocument>>]>>
            /\ spec_call' = SpecCall("generate_design", Ok)
    /\ UNCHANGED outside_spec

GenerateTasks ==
    /\ IF current_spec = <<>>
       THEN /\ spec_call' = SpecCall("generate_tasks", Ok)
            /\ UNCHANGED <<current_spec, spec_dir_exists, spec_files>>
       ELSE IF current_spec[1].design = <<>>
       THEN /\ spec_call' = SpecCall("generate_tasks",
                               Err("Design must be loaded before generating tasks"))
            /\ UNCHANGED <<current_spec, spec_dir_exists, spec_files>>
       ELSE /\ spec_dir_exists' = TRUE
            /\ spec_files' = spec_files \cup {tasks_md}
            /\ current_spec' = <<[current_spec[1] EXCEPT !.tasks = <<LoadedDocument>>]>>
            /\ spec_call' = SpecCall("generate_tasks", Ok)
    /\ UNCHANGED outside_spec

\* the file update_requirements, update_design or update_tasks rewrites
FileOf(phase) ==
    CASE phase = Requirements -> requirements_md
      [] phase = Design -> design_md
      [] OTHER -> tasks_md

\* approved is set in the loaded copy before the file is rewritten
ApproveCurrentPhase ==
    /\ IF current_spec = <<>>
       THEN /\ spec_call' = SpecCall("approve_current_phase", Ok)
            /\ UNCHANGED current_spec
       ELSE LET spec == current_spec[1]
                phase == spec.current_phase
                approved == <<[approved |-> TRUE]>>
            IN  IF DocumentOf(spec, phase) = <<>>
                THEN /\ spec_call' = SpecCall("approve_current_phase", Ok)
                     /\ UNCHANGED current_spec
                ELSE /\ current_spec' =
                           <<CASE phase = Requirements ->
                                     [spec EXCEPT !.requirements = approved]
                               [] phase = Design -> [spec EXCEPT !.design = approved]
                               [] OTHER -> [spec EXCEPT !.tasks = approved]>>
                     /\ spec_call' =
                           SpecCall("approve_current_phase",
                                    IF FileOf(phase) \in spec_files THEN Ok
                                    ELSE Err("document not found for feature"))
    /\ UNCHANGED <<spec_dir_exists, spec_files>>
    /\ UNCHANGED outside_spec

ReloadCurrentSpec ==
    /\ current_spec' =
          IF current_spec = <<>> THEN <<>>
          ELSE LET spec == current_spec[1]
               IN  <<SpecContext(spec.feature_name, spec.current_phase,
                        load_if_exists(spec_files, requirements_md, spec.requirements),
                        load_if_exists(spec_files, design_md, spec.design),
                        load_if_exists(spec_files, tasks_md, spec.tasks))>>
    /\ spec_call' = SpecCall("reload_current_spec", Ok)
    /\ UNCHANGED <<spec_dir_exists, spec_files>>
    /\ UNCHANGED outside_spec

DeleteSpec(feature_name) ==
    /\ feature_name # ""
    /\ spec_dir_exists' = FALSE
    /\ spec_files' = {}
    /\ current_spec' =
          IF current_spec # <<>> /\ current_spec[1].feature_name = feature_name
          THEN <<>> ELSE current_spec
    /\ spec_call' = SpecCall("delete_spec", Ok)
    /\ UNCHANGED outside_spec

SpecWorkflowNext ==
    \/ \E feature_name \in FeatureNames : CreateNewSpec(feature_name)
    \/ \E feature_name \in FeatureNames : OpenSpec(feature_name)
    \/ NextPhase
    \/ PreviousPhase
    \/ \E phase \in SpecPhase : GotoPhase(phase)
    \/ GenerateDesign
    \/ GenerateTasks
    \/ ApproveCurrentPhase
    \/ ReloadCurrentSpec
    \/ \E feature_name \in FeatureNames : DeleteSpec(feature_name)

SpecWorkflowSpec == Init /\ [][SpecWorkflowNext]_vars

(***************************************************************************)
(* HealthMonitor (controller/src/container/health.rs).  Time enters only    *)
(* through the startup grace period, so the container start time is kept    *)
(* as "grace" while less than startup_grace_period has passed since         *)
(* record_container_start and as "past" afterwards.  check_interval and     *)
(* last_check_time decide only is_check_due and are left out.               *)
(***************************************************************************)
Healthy == [tag |-> "Healthy"]

Starting == [tag |-> "Starting"]

Unhealthy(failed) == [tag |-> "Unhealthy", failed |-> failed]

Unknown == [tag |-> "Unknown"]

HealthErrors == {"Connection timeout"}

HealthCheckResult(status, error_message) ==
    [status |-> status, error_message |-> error_message]

\* the status record_failure stores, from the count it has just incremented
failure_status_off_by_one(count, max) ==
    IF count > max THEN Unhealthy(count) ELSE Starting

failure_status(count, max) ==
    IF count >= max THEN Unhealthy(count) ELSE Starting

get_status(start_time, check) ==
    IF start_time = <<"grace">> THEN Starting
    ELSE IF check # <<>> THEN check[1].status
    ELSE Unknown

RecordSuccess ==
    /\ last_check' = <<HealthCheckResult(Healthy, <<>>)>>
    /\ failure_count' = 0
    /\ failures_in_row' = 0
    /\ health_op' = "record_success"
    /\ UNCHANGED <<max_failures, container_start_time>>
    /\ UNCHANGED outside_health

RecordFailure(error) ==
    /\ failure_count < MaxFailureCount
    /\ failure_count' = failure_count + 1
    /\ last_check' =
          <<HealthCheckResult(failure_status(failure_count', max_failures), <<error>>)>>
    /\ failures_in_row' = failures_in_row + 1
    /\ health_op' = "record_failure"
    /\ UNCHANGED <<max_failures, container_start_time>>
    /\ UNCHANGED outside_health

RecordContainerStart ==
    /\ container_start_time' = <<"grace">>
    /\ failure_count' = 0
    /\ last_check' = <<HealthCheckResult(Starting, <<>>)>>
    /\ failures_in_row' = 0
    /\ health_op' = "record_container_start"
    /\ UNCHANGED max_failures
    /\ UNCHANGED outside_health

\* startup_grace_period passes
GracePeriodEnds ==
    /\ container_start_time = <<"grace">>
    /\ container_start_time' = <<"past">>
    /\ health_op' = "clock"
    /\ UNCHANGED <<last_check, failure_count, max_failures, failures_in_row>>
    /\ UNCHANGED outside_health

HealthReset ==
    /\ last_check' = <<>>
    /\ failure_count' = 0
    /\ container_start_time' = <<>>
    /\ failures_in_row' = 0
    /\ health_op' = "reset"
    /\ UNCHANGED max_failures
    /\ UNCHANGED outside_health

SetMaxFailures(max) ==
    /\ max_failures' = max
    /\ health_op' = "set_max_failures"
    /\ UNCHANGED <<last_check, failure_count, container_start_time, failures_in_row>>
    /\ UNCHANGED outside_health

HealthNext ==
    \/ RecordSuccess
    \/ \E error \in HealthErrors : RecordFailure(error)
    \/ RecordContainerStart
    \/ GracePeriodEnds
    \/ HealthReset
    \/ \E max \in 0..MaxThreshold : SetMaxFailures(max)

HealthSpec == Init /\ [][HealthNext]_vars

(***************************************************************************)
(* C31: SpecWorkflow::next_phase advances Requirements to Design, Design to *)
(* Tasks and Tasks to Implementation only when the document of the current  *)
(* phase has been approved; without that approval it returns an error and   *)
(* the current phase is unchanged.                                          *)
(***************************************************************************)
C31_AdvanceOnlyWhenApproved ==
    [][(/\ spec_call'.op = "next_phase"
        /\ current_spec # <<>>
        /\ current_spec[1].current_phase # Implementation)
       => LET spec == current_spec[1]
              doc == DocumentOf(spec, spec.current_phase)
          IN  IF doc # <<>> /\ doc[1].approved
              THEN /\ spec_call'.result = Ok
                   /\ current_spec'[1].current_phase = PhaseAfter(spec.current_phase)
              ELSE /\ ~spec_call'.result.ok
                   /\ current_spec'[1].current_phase = spec.current_phase]_vars

(***************************************************************************)
(* C32: HealthMonitor records the status Unhealthy exactly when the number  *)
(* of consecutive record_failure calls since the last record_success,       *)
(* container start or reset has reached max_failures, and records Starting  *)
(* for fewer; record_success sets the failure count to 0 and the status to  *)
(* Healthy.  The counter of the monitor is that number of calls.            *)
(***************************************************************************)
C32_UnhealthyAtThreshold ==
    /\ failure_count = failures_in_row
    /\ health_op = "record_failure"
       => /\ last_check # <<>>
          /\ last_check[1].status.tag = "Unhealthy" <=> failures_in_row >= max_failures
          /\ last_check[1].status = Starting <=> failures_in_row < max_failures
    /\ health_op = "record_success"
       => /\ failure_count = 0
          /\ last_check # <<>>
          /\ last_check[1].status = Healthy

\* the failure that reaches a threshold of two or more has been recorded
C32_Witness ==
    /\ health_op = "record_failure"
    /\ max_failures > 1
    /\ failures_in_row = max_failures
    /\ last_check[1].status.tag = "Unhealthy"

(***************************************************************************)
(* C33: no command that fails validation (empty after trimming, or          *)
(* containing a forbidden pattern) is ever passed to the host shell,        *)
(* whatever sequence of propose, approve and execute calls is made and      *)
(* whichever execution entry point is used.                                 *)
(***************************************************************************)
C33_InvalidNeverSpawned ==
    /\ child # <<>> => validate_command(child[1].command).ok
    /\ plugin_child # <<>> => validate_command(plugin_child[1].command).ok

(***************************************************************************)
(* C34: when the user approves block id B, the shell command that is        *)
(* spawned has exactly the command text and working directory that were     *)
(* proposed and shown for B, and one approval triggers one spawn.  Stated   *)
(* for an approval of a block the renderer still shows as proposed: the     *)
(* block the call hands to sh carries the proposed text and directory, so   *)
(* does the process once it runs, and nothing but the host refusing to      *)
(* start sh keeps the process from running.                                 *)
(***************************************************************************)
C34_ApprovalSpawnsProposed ==
    [][\A block_id \in DOMAIN active_blocks :
          (/\ PluginIdle
           /\ call' # call
           /\ call'.op \in {"approve_command", "handle_approval"}
           /\ call'.block_id = block_id
           /\ active_blocks[block_id].approval_status = Pending)
          => LET shown == active_blocks[block_id]
             IN  /\ call'.command_block # <<>>
                 /\ call'.command_block[1].command = shown.command
                 /\ call'.command_block[1].working_directory = shown.working_directory
                 /\ plugin_child' # <<>>
                    => /\ plugin_child'[1].command = shown.command
                       /\ plugin_child'[1].working_directory = shown.working_directory
                 /\ plugin_child' = <<>>
                    => call'.result = SpawnResult(shown.working_directory, FALSE)]_vars

(***************************************************************************)
(* C35: execute_safe_command called with a command for which                *)
(* is_safe_command holds spawns that command once and returns its block in  *)
(* the Executed state carrying the captured output.  As a statement about   *)
(* every state: a call that passed the safety gate is either waiting on sh  *)
(* running that command, or its block is Executed.                          *)
(***************************************************************************)
C35_SafeCommandExecuted ==
    (call.op = "execute_safe_command" /\ call.result # NotSafe)
    => /\ call.command_block # <<>>
       /\ is_safe_command(call.command_block[1].command)
       /\ \/ /\ plugin_child # <<>>
             /\ plugin_child[1].command = call.command_block[1].command
          \/ /\ plugin_child = <<>>
             /\ call.command_block[1].approval_status.tag = "Executed"

C37_FailedDecisionKeepsApproval ==
    [][(/\ call' # call
        /\ call'.op \in {"ui_approve_command", "ui_reject_command"}
        /\ ~call'.result.ok)
       => active_approvals' = active_approvals]_vars

====
